---- MODULE Spec2Model ----
(***************************************************************************)
(* The tetrimino game loop of src/src/main.rs: the gravity tick, the spawn *)
(* attempt, handle_events and the end-of-session ledger update, together   *)
(* with update_vec.  The modules tetrimino, shape and score are declared   *)
(* in main.rs (lines 13-15) but their files are not part of the source     *)
(* tree; Piece, Grid and make_permanent are modelled from spec.md.         *)
(***************************************************************************)
EXTENDS Integers, Sequences, FiniteSets, Bags, TLC

(* ------------------------------ bounds -------------------------------- *)
\* Scaled-down playfield (the reference is 10 columns x 16 rows).
GridWidth == 4
GridHeight == 5
\* The first NbKinds kinds of the catalog are spawned.
NbKinds == 1
\* Events polled by one handle_events call.
MaxEvents == 2
\* Pieces installed as current_piece per session.
MaxPieces == 1
\* update_vec: values submitted and number of calls.
MaxValue == 2
MaxCalls == 7

(* ------------------------- program constants -------------------------- *)
NB_HIGHSOCRES == 5

None == [tag |-> "None"]

(* --------------------------- Shape Catalog ---------------------------- *)
\* spec.md 4.1: seven kinds; each rotation state is a bitmap whose nonzero
\* cells carry the colour index of the kind.
Catalog ==
  << \* I
     << << <<1,1,1,1>>, <<0,0,0,0>>, <<0,0,0,0>>, <<0,0,0,0>> >>,
        << <<0,1,0,0>>, <<0,1,0,0>>, <<0,1,0,0>>, <<0,1,0,0>> >> >>,
     \* O
     << << <<2,2>>, <<2,2>> >> >>,
     \* T
     << << <<3,3,3>>, <<0,3,0>>, <<0,0,0>> >>,
        << <<0,3,0>>, <<3,3,0>>, <<0,3,0>> >>,
        << <<0,3,0>>, <<3,3,3>>, <<0,0,0>> >>,
        << <<0,3,0>>, <<0,3,3>>, <<0,3,0>> >> >>,
     \* S
     << << <<0,4,4>>, <<4,4,0>>, <<0,0,0>> >>,
        << <<0,4,0>>, <<0,4,4>>, <<0,0,4>> >> >>,
     \* Z
     << << <<5,5,0>>, <<0,5,5>>, <<0,0,0>> >>,
        << <<0,0,5>>, <<0,5,5>>, <<0,5,0>> >> >>,
     \* J
     << << <<6,6,6>>, <<6,0,0>>, <<0,0,0>> >>,
        << <<6,6,0>>, <<0,6,0>>, <<0,6,0>> >>,
        << <<0,0,6>>, <<6,6,6>>, <<0,0,0>> >>,
        << <<6,0,0>>, <<6,0,0>>, <<6,6,0>> >> >>,
     \* L
     << << <<7,7,7>>, <<0,0,7>>, <<0,0,0>> >>,
        << <<0,7,0>>, <<0,7,0>>, <<7,7,0>> >>,
        << <<7,0,0>>, <<7,7,7>>, <<0,0,0>> >>,
        << <<7,7,0>>, <<7,0,0>>, <<7,0,0>> >> >> >>

\* piece.states
states(piece) == Catalog[piece.kind]

\* piece.states[piece.current_state as usize]; current_state counts from 0.
bitmap(piece) == states(piece)[piece.current_state + 1]

\* The occupied cells of a bitmap as <<column, row>> offsets from the anchor.
bitmap_cells(b) ==
  { <<cr[1] - 1, cr[2] - 1>> : cr \in
      { cr \in (1..Len(b[1])) \X (1..Len(b)) : b[cr[2]][cr[1]] # 0 } }

\* The cells of every rotation state of every kind.
CatalogCells ==
  [k \in 1..Len(Catalog) |->
     [s \in 1..Len(Catalog[k]) |-> bitmap_cells(Catalog[k][s])]]

\* The occupied cells of the piece's current rotation state.
cells(piece) == CatalogCells[piece.kind][piece.current_state + 1]

(* -------------------------------- Grid -------------------------------- *)
EmptyRow == [c \in 1..GridWidth |-> 0]
EmptyMap == [r \in 1..GridHeight |-> EmptyRow]

\* spec.md 4.3 is_occupied: columns outside the grid and rows past the bottom
\* are occupied, rows above the visible top are not.
is_occupied(game_map, col, row) ==
  IF col < 0 \/ col >= GridWidth \/ row >= GridHeight THEN TRUE
  ELSE IF row < 0 THEN FALSE
  ELSE game_map[row + 1][col + 1] # 0

(* -------------------------------- Piece ------------------------------- *)
\* spec.md 4.2 test_position
test_position(piece, game_map, x, y) ==
  \A d \in cells(piece) : ~is_occupied(game_map, x + d[1], y + d[2])

\* spec.md 4.2 test_current_position
test_current_position(piece, game_map) ==
  test_position(piece, game_map, piece.x, piece.y)

\* spec.md 4.2 change_position: the piece after the call; the call returns
\* test_position(piece, game_map, new_x, new_y).
change_position(piece, game_map, new_x, new_y) ==
  IF test_position(piece, game_map, new_x, new_y)
  THEN [piece EXCEPT !.x = new_x, !.y = new_y]
  ELSE piece

\* spec.md 4.2 rotate: cyclic next state, committed only when it fits.
rotate(piece, game_map) ==
  LET next == [piece EXCEPT
                 !.current_state = (@ + 1) % Len(states(piece))] IN
  IF test_current_position(next, game_map) THEN next ELSE piece

\* Spawn anchor: column 4 of 10 in the reference, row 0 (piece.y is unsigned
\* in main.rs: tmp_y and piece.y + line_nb are usize arithmetic).  On a
\* narrower grid the anchor stays low enough for the widest bitmap to fit.
SpawnX ==
  IF GridWidth \div 2 - 1 <= GridWidth - 4 THEN GridWidth \div 2 - 1
  ELSE GridWidth - 4

\* create_new_tetrimino for the kind drawn
new_tetrimino(kind) ==
  [kind |-> kind, current_state |-> 0, x |-> SpawnX, y |-> 0]


(* ------------------------- Game Engine: Landing ----------------------- *)
\* spec.md 4.4: current_level rises by one every LinesPerLevel cleared lines.
LinesPerLevel == 1

\* spec.md 4.4 / 9: bonus per merge, super-linear in the rows cleared.
RowBonus(n) ==
  CASE n = 0 -> 0 [] n = 1 -> 40 [] n = 2 -> 100 [] n = 3 -> 300
    [] OTHER -> 1200

\* spec.md 4.3 merge: the colour index goes into every occupied cell.
merge(game_map, piece) ==
  [r \in 1..GridHeight |-> [c \in 1..GridWidth |->
     IF <<c - 1 - piece.x, r - 1 - piece.y>> \in cells(piece)
     THEN piece.kind ELSE game_map[r][c]]]

\* A row is complete iff every cell is nonzero.
complete(row) == \A c \in 1..GridWidth : row[c] # 0

\* spec.md 4.3 clear_completed_rows: the grid after the call.
clear_completed_rows(game_map) ==
  LET kept == SelectSeq(game_map, LAMBDA row : ~complete(row))
      n == GridHeight - Len(kept)
  IN [r \in 1..GridHeight |-> IF r <= n THEN EmptyRow ELSE kept[r - n]]

\* The number of rows clear_completed_rows returns.
cleared_count(game_map) ==
  Cardinality({r \in 1..GridHeight : complete(game_map[r])})

\* make_permanent charging the bonus instead of awarding it.
make_permanent_charges(t) ==
  IF t.current_piece = None THEN t
  ELSE
    LET m == merge(t.game_map, t.current_piece)
        n == Cardinality({r \in 1..GridHeight : complete(m[r])})
        lines == t.nb_lines + n
    IN [game_map |-> clear_completed_rows(m),
        current_level |->
          t.current_level
            + (lines \div LinesPerLevel - t.nb_lines \div LinesPerLevel),
        score |-> t.score - RowBonus(n) * t.current_level,
        nb_lines |-> lines,
        current_piece |-> None]

\* spec.md 4.4 Landing: merge, clear, count lines, score, level; the piece is
\* gone afterwards.  t is the Tetris value.
make_permanent(t) ==
  IF t.current_piece = None THEN t
  ELSE
    LET m == merge(t.game_map, t.current_piece)
        n == cleared_count(m)
        lines == t.nb_lines + n
    IN [game_map |-> clear_completed_rows(m),
        current_level |->
          t.current_level
            + (lines \div LinesPerLevel - t.nb_lines \div LinesPerLevel),
        score |-> t.score + RowBonus(n) * t.current_level,
        nb_lines |-> lines,
        current_piece |-> None]

(* ------------------------------ gravity ------------------------------- *)
\* Frames between two gravity ticks at level 1.
BaseTickFrames == 2

\* spec.md 4.4 gravity timing: the threshold shrinks with the level down to a
\* floor of one frame.
TickFrames(level) ==
  IF BaseTickFrames - (level - 1) < 1 THEN 1 ELSE BaseTickFrames - (level - 1)

\* timer is the age of the SystemTime held by main, in frames:
\* SystemTime::now() is age 0.
is_time_over(t, timer) == timer >= TickFrames(t.current_level)

(* --------------------------- handle_events ---------------------------- *)
Events == {"Quit", "Down", "Right", "Left", "Up", "Space", "Other"}

\* main.rs 113-117: the hard-drop loop.
RECURSIVE hard_drop(_, _)
hard_drop(piece, game_map) ==
  IF test_position(piece, game_map, piece.x, piece.y + 1)
  THEN hard_drop(change_position(piece, game_map, piece.x, piece.y + 1),
                 game_map)
  ELSE piece

\* on_event without the timer reset of line 88.
on_event_keeps_timer(st, game_map, event) ==
  CASE event = "Quit"  -> [st EXCEPT !.quit = TRUE]
    [] event = "Down"  -> [st EXCEPT !.tmp_y = @ + 1]
    [] event = "Right" -> [st EXCEPT !.tmp_x = @ + 1]
    [] event = "Left"  -> [st EXCEPT !.tmp_x = @ - 1]
    [] event = "Up"    -> [st EXCEPT !.piece = rotate(@, game_map)]
    [] event = "Space" -> [st EXCEPT !.piece = hard_drop(@, game_map),
                                     !.make_permanent = TRUE]
    [] OTHER -> st

\* on_event whose Down arm resets the timer but forgets tmp_y += 1.
on_event_down_only_resets(st, game_map, event) ==
  CASE event = "Quit"  -> [st EXCEPT !.quit = TRUE]
    [] event = "Down"  -> [st EXCEPT !.timer = 0]
    [] event = "Right" -> [st EXCEPT !.tmp_x = @ + 1]
    [] event = "Left"  -> [st EXCEPT !.tmp_x = @ - 1]
    [] event = "Up"    -> [st EXCEPT !.piece = rotate(@, game_map)]
    [] event = "Space" -> [st EXCEPT !.piece = hard_drop(@, game_map),
                                     !.make_permanent = TRUE]
    [] OTHER -> st

\* main.rs 75-121: the body of the for loop for one event.  st holds the
\* locals: piece, tmp_x, tmp_y, make_permanent, quit, timer.
on_event(st, game_map, event) ==
  CASE event = "Quit"  -> [st EXCEPT !.quit = TRUE]
    [] event = "Down"  -> [st EXCEPT !.timer = 0, !.tmp_y = @ + 1]
    [] event = "Right" -> [st EXCEPT !.tmp_x = @ + 1]
    [] event = "Left"  -> [st EXCEPT !.tmp_x = @ - 1]
    [] event = "Up"    -> [st EXCEPT !.piece = rotate(@, game_map)]
    [] event = "Space" -> [st EXCEPT !.piece = hard_drop(@, game_map),
                                     !.make_permanent = TRUE]
    [] OTHER -> st

\* main.rs 74-122: the for loop; Quit breaks out of it.
RECURSIVE poll_loop(_, _, _)
poll_loop(st, game_map, events) ==
  IF events = << >> \/ st.quit THEN st
  ELSE poll_loop(on_event(st, game_map, Head(events)), game_map, Tail(events))

\* main.rs 71-122: the locals after the loop.
polled(piece, game_map, timer, events) ==
  poll_loop([piece |-> piece, tmp_x |-> piece.x, tmp_y |-> piece.y,
             make_permanent |-> FALSE, quit |-> FALSE, timer |-> timer],
            game_map, events)

\* final_move_lands without the tmp_y != piece.y test of line 125.
final_move_lands_on_any_rejection(piece, game_map, tmp_x, tmp_y) ==
  ~test_position(piece, game_map, tmp_x, tmp_y)

\* main.rs 125: the deferred move lands the piece.
final_move_lands(piece, game_map, tmp_x, tmp_y) ==
  ~test_position(piece, game_map, tmp_x, tmp_y) /\ tmp_y # piece.y

\* settle committing the deferred move without testing it.
settle_unchecked(st, game_map) ==
  IF st.make_permanent THEN st
  ELSE [st EXCEPT
          !.piece = [@ EXCEPT !.x = st.tmp_x, !.y = st.tmp_y],
          !.make_permanent =
             final_move_lands(st.piece, game_map, st.tmp_x, st.tmp_y)]

\* main.rs 124-128: the piece and the flag after the deferred move.
settle(st, game_map) ==
  IF st.make_permanent THEN st
  ELSE [st EXCEPT
          !.piece = change_position(@, game_map, st.tmp_x, st.tmp_y),
          !.make_permanent =
             final_move_lands(st.piece, game_map, st.tmp_x, st.tmp_y)]

\* handle_events awarding a point per soft-dropped row.
handle_events_scores_soft_drop(t, timer, events) ==
  IF t.current_piece = None
  THEN [tetris |-> t, quit |-> FALSE, timer |-> timer, ret |-> FALSE,
        locals |-> None]
  ELSE
    LET after(st) ==
          [tetris |-> IF st.make_permanent
                      THEN make_permanent([t EXCEPT !.current_piece = st.piece])
                      ELSE [t EXCEPT !.current_piece = st.piece,
                                     !.score = @ + (st.piece.y
                                                    - t.current_piece.y)],
           quit |-> st.quit,
           timer |-> IF st.make_permanent THEN 0 ELSE st.timer,
           ret |-> st.make_permanent,
           locals |-> st]
    IN after(CHOOSE st \in
               { settle(polled(t.current_piece, t.game_map, timer, events),
                        t.game_map) } : TRUE)

\* main.rs 63-137.  The result carries the Tetris value, quit, timer, the
\* returned flag and the locals at line 130.
handle_events(t, timer, events) ==
  IF t.current_piece = None
  THEN [tetris |-> t, quit |-> FALSE, timer |-> timer, ret |-> FALSE,
        locals |-> None]
  ELSE
    LET after(st) ==
          [tetris |-> IF st.make_permanent
                      THEN make_permanent([t EXCEPT !.current_piece = st.piece])
                      ELSE [t EXCEPT !.current_piece = st.piece],
           quit |-> st.quit,
           timer |-> IF st.make_permanent THEN 0 ELSE st.timer,
           ret |-> st.make_permanent,
           locals |-> st]
    IN after(CHOOSE st \in
               { settle(polled(t.current_piece, t.game_map, timer, events),
                        t.game_map) } : TRUE)

(* ----------------------------- update_vec ----------------------------- *)
\* Vec::sort on a vector, by insertion.
RECURSIVE insert_sorted(_, _)
insert_sorted(s, value) ==
  IF s = << >> THEN << value >>
  ELSE IF value <= Head(s) THEN << value >> \o s
  ELSE << Head(s) >> \o insert_sorted(Tail(s), value)

RECURSIVE sort(_)
sort(s) == IF s = << >> THEN s ELSE insert_sorted(sort(Tail(s)), Head(s))

\* first_smaller comparing with >= instead of >.
first_smaller_or_equal(vec, value) ==
  IF \E i \in 1..Len(vec) : value >= vec[i]
  THEN CHOOSE i \in 1..Len(vec) :
         value >= vec[i] /\ \A j \in 1..(i - 1) : ~(value >= vec[j])
  ELSE 0

\* main.rs 146-151: the first entry the value exceeds, 0 when there is none.
first_smaller(vec, value) ==
  IF \E i \in 1..Len(vec) : value > vec[i]
  THEN CHOOSE i \in 1..Len(vec) :
         value > vec[i] /\ \A j \in 1..(i - 1) : ~(value > vec[j])
  ELSE 0

\* main.rs 139-154: the vector after the call and the returned flag.
update_vec(vec, value) ==
  IF Len(vec) < NB_HIGHSOCRES
  THEN [v |-> sort(Append(vec, value)), ret |-> TRUE]
  ELSE IF first_smaller(vec, value) # 0
  THEN [v |-> [vec EXCEPT ![first_smaller(vec, value)] = value], ret |-> TRUE]
  ELSE [v |-> vec, ret |-> FALSE]

(* ----------------------- print_game_information ----------------------- *)
\* print_game_information saving the lists whether or not one changed.
print_game_information_always_saves(t, stored) ==
  IF stored # None
  THEN
    LET hs == update_vec(stored.highscores, t.score)
        ls == update_vec(stored.lines_sent, t.nb_lines)
    IN [ledger |-> [highscores |-> hs.v, lines_sent |-> ls.v],
        saved |-> TRUE,
        loaded |-> stored,
        new_highest_score |-> hs.ret,
        new_highest_lines_sent |-> ls.ret,
        score |-> t.score, nb_lines |-> t.nb_lines,
        current_level |-> t.current_level]
  ELSE [ledger |-> [highscores |-> << t.score >>,
                    lines_sent |-> << t.nb_lines >>],
        saved |-> TRUE,
        loaded |-> stored,
        new_highest_score |-> TRUE,
        new_highest_lines_sent |-> TRUE,
        score |-> t.score, nb_lines |-> t.nb_lines,
        current_level |-> t.current_level]

\* main.rs 156-191 with score::load_highscores_and_lines returning the stored
\* ledger (None when there is no record) and save_highscores_and_lines
\* storing its arguments.
print_game_information(t, stored) ==
  IF stored # None
  THEN
    LET hs == update_vec(stored.highscores, t.score)
        ls == update_vec(stored.lines_sent, t.nb_lines)
    IN [ledger |-> IF hs.ret \/ ls.ret
                   THEN [highscores |-> hs.v, lines_sent |-> ls.v]
                   ELSE stored,
        saved |-> hs.ret \/ ls.ret,
        loaded |-> stored,
        new_highest_score |-> hs.ret,
        new_highest_lines_sent |-> ls.ret,
        score |-> t.score, nb_lines |-> t.nb_lines,
        current_level |-> t.current_level]
  ELSE [ledger |-> [highscores |-> << t.score >>,
                    lines_sent |-> << t.nb_lines >>],
        saved |-> TRUE,
        loaded |-> stored,
        new_highest_score |-> TRUE,
        new_highest_lines_sent |-> TRUE,
        score |-> t.score, nb_lines |-> t.nb_lines,
        current_level |-> t.current_level]


(* ------------------------------- state -------------------------------- *)
VARIABLES
  game_map, current_level, score, nb_lines, current_piece, \* Tetris
  timer,      \* main's timer, as its age in frames
  quit,       \* main's quit flag of the current iteration
  pc,         \* position in main's loop: tick, spawn, events, quit, done
  ledger,     \* the stored Score Ledger, None when there is no record
  reported,   \* what print_game_information printed, None before it ran
  spawned,    \* pieces installed so far
  merged,     \* history: the piece and grid of the make_permanent call of
              \* the last step, None when the last step made none
  frame,      \* history: the handle_events call of this iteration
  v, submitted, changed, calls  \* update_vec on its own: the vector, the
              \* values submitted, the last returned flag, the call count

tetris_vars == << game_map, current_level, score, nb_lines, current_piece >>
vec_vars == << v, submitted, changed, calls >>
vars == << game_map, current_level, score, nb_lines, current_piece, timer,
           quit, pc, ledger, reported, spawned, merged, frame,
           v, submitted, changed, calls >>

\* The Tetris value held by main.
tetris ==
  [game_map |-> game_map, current_level |-> current_level, score |-> score,
   nb_lines |-> nb_lines, current_piece |-> current_piece]

\* Ledgers found on disk at the start of a session.
InitLedgers ==
  { None,
    [highscores |-> <<0, 0, 0, 0, 40>>, lines_sent |-> <<0, 0, 0, 0, 1>>] }

\* Tetris::new(), main.rs 247-248, and an empty vector for update_vec.
Init ==
  /\ game_map = EmptyMap
  /\ current_level = 1
  /\ score = 0
  /\ nb_lines = 0
  /\ current_piece = None
  /\ timer = 0
  /\ quit = FALSE
  /\ pc = "tick"
  /\ ledger \in InitLedgers
  /\ reported = None
  /\ spawned = 0
  /\ merged = None
  /\ frame = None
  /\ v = << >>
  /\ submitted = << >>
  /\ changed = FALSE
  /\ calls = 0

\* Assigns the Tetris fields from a Tetris value.
SetTetris(t) ==
  /\ game_map' = t.game_map
  /\ current_level' = t.current_level
  /\ score' = t.score
  /\ nb_lines' = t.nb_lines
  /\ current_piece' = t.current_piece

\* gravity with the negation of line 322 dropped: a blocked piece is kept.
gravity_keeps_blocked_piece(t) ==
  IF t.current_piece = None
  THEN [tetris |-> t, make_permanent |-> FALSE]
  ELSE
    LET piece == t.current_piece IN
    [tetris |-> [t EXCEPT !.current_piece =
                   change_position(piece, t.game_map, piece.x, piece.y + 1)],
     make_permanent |-> FALSE]

\* main.rs 318-327: the Tetris value after the gravity move and the flag.
gravity(t) ==
  IF t.current_piece = None
  THEN [tetris |-> t, make_permanent |-> FALSE]
  ELSE
    LET piece == t.current_piece
        ok == test_position(piece, t.game_map, piece.x, piece.y + 1)
        held == [t EXCEPT !.current_piece =
                   change_position(piece, t.game_map, piece.x, piece.y + 1)]
    IN [tetris |-> IF ~ok THEN make_permanent(held) ELSE held,
        make_permanent |-> ~ok]

\* main.rs 317-330: the time is over.
GravityTick ==
  /\ pc = "tick"
  /\ is_time_over(tetris, timer)
  /\ LET g == gravity(tetris) IN
       /\ SetTetris(g.tetris)
       /\ merged' = IF g.make_permanent
                    THEN [piece |-> current_piece, map |-> game_map,
                          by |-> "tick"]
                    ELSE None
  /\ timer' = 0
  /\ pc' = "spawn"
  /\ UNCHANGED << quit, ledger, reported, spawned, frame, vec_vars >>

\* main.rs 317: the time is not over.
NoTick ==
  /\ pc = "tick"
  /\ ~is_time_over(tetris, timer)
  /\ merged' = None
  /\ pc' = "spawn"
  /\ UNCHANGED << tetris_vars, timer, quit, ledger, reported, spawned, frame,
                  vec_vars >>

\* KeepPiece going on to the events without looking at current_piece.
KeepPiece_skips_spawn ==
  /\ pc = "spawn"
  /\ merged' = None
  /\ pc' = "events"
  /\ UNCHANGED << tetris_vars, timer, quit, ledger, reported, spawned, frame,
                  vec_vars >>

\* main.rs 370: a piece is falling, nothing to spawn.
KeepPiece ==
  /\ pc = "spawn"
  /\ current_piece # None
  /\ merged' = None
  /\ pc' = "events"
  /\ UNCHANGED << tetris_vars, timer, quit, ledger, reported, spawned, frame,
                  vec_vars >>

\* main.rs 370-377: the new piece fits and becomes the current piece.
SpawnWithin(cap) ==
  /\ pc = "spawn"
  /\ current_piece = None
  /\ spawned < cap
  /\ \E kind \in 1..NbKinds :
       /\ test_current_position(new_tetrimino(kind), game_map)
       /\ current_piece' = new_tetrimino(kind)
  /\ spawned' = spawned + 1
  /\ merged' = None
  /\ pc' = "events"
  /\ UNCHANGED << game_map, current_level, score, nb_lines, timer, quit,
                  ledger, reported, frame, vec_vars >>

\* A session of at most MaxPieces pieces.
Spawn ==
  SpawnWithin(MaxPieces)

\* A session of one piece more, so that a piece meets placed blocks.
SpawnOverBlocks ==
  SpawnWithin(MaxPieces + 1)

\* SpawnFail installing the piece before it is tested.
SpawnFail_installs ==
  /\ pc = "spawn"
  /\ current_piece = None
  /\ \E kind \in 1..NbKinds :
       /\ ~test_current_position(new_tetrimino(kind), game_map)
       /\ current_piece' = new_tetrimino(kind)
  /\ LET info == print_game_information(tetris, ledger) IN
       /\ ledger' = info.ledger
       /\ reported' = info
  /\ merged' = None
  /\ pc' = "done"
  /\ UNCHANGED << game_map, current_level, score, nb_lines, timer, quit,
                  spawned, frame, vec_vars >>

\* main.rs 370-375: the new piece does not fit; the session ends.
SpawnFail ==
  /\ pc = "spawn"
  /\ current_piece = None
  /\ \E kind \in 1..NbKinds :
       ~test_current_position(new_tetrimino(kind), game_map)
  /\ LET info == print_game_information(tetris, ledger) IN
       /\ ledger' = info.ledger
       /\ reported' = info
  /\ merged' = None
  /\ pc' = "done"
  /\ UNCHANGED << tetris_vars, timer, quit, spawned, frame, vec_vars >>

\* The event sequences one poll_iter can deliver: up to MaxEvents events;
\* nothing is polled after a Quit.
RECURSIVE SeqsUpTo(_)
SeqsUpTo(n) ==
  IF n = 0 THEN { << >> }
  ELSE LET shorter == SeqsUpTo(n - 1) IN
       shorter \cup
         { Append(s, e) : s \in { t \in shorter : Len(t) = n - 1 /\
                                    \A i \in 1..Len(t) : t[i] # "Quit" },
                          e \in Events }
Frames == SeqsUpTo(MaxEvents)

\* Applies one event to the piece as its own Piece operation; st holds the
\* piece and whether it has landed.
apply_one(st, grid, event) ==
  LET p == st.piece IN
  IF st.landed THEN st
  ELSE CASE event = "Left" ->
              [st EXCEPT !.piece = change_position(p, grid, p.x - 1, p.y)]
         [] event = "Right" ->
              [st EXCEPT !.piece = change_position(p, grid, p.x + 1, p.y)]
         [] event = "Down" ->
              [piece |-> change_position(p, grid, p.x, p.y + 1),
               landed |-> ~test_position(p, grid, p.x, p.y + 1)]
         [] event = "Up" -> [st EXCEPT !.piece = rotate(p, grid)]
         [] event = "Space" ->
              [piece |-> hard_drop(p, grid), landed |-> TRUE]
         [] OTHER -> st

\* The events applied in arrival order, one at a time.
RECURSIVE apply_each(_, _, _)
apply_each(st, grid, events) ==
  IF events = << >> \/ Head(events) = "Quit" THEN st
  ELSE apply_each(apply_one(st, grid, Head(events)), grid,
                  Tail(events))

\* The piece right after the first hard drop among the events, None when
\* there is none.
RECURSIVE first_drop(_, _, _)
first_drop(piece, grid, events) ==
  IF events = << >> \/ Head(events) = "Quit" THEN None
  ELSE IF Head(events) = "Space" THEN hard_drop(piece, grid)
  ELSE first_drop(IF Head(events) = "Up" THEN rotate(piece, grid)
                  ELSE piece,
                  grid, Tail(events))

\* main.rs 379-380: one handle_events call over the events polled.
HandleEvents ==
  /\ pc = "events"
  /\ \E events \in Frames :
       \E h \in { handle_events(tetris, timer, events) } :
          /\ SetTetris(h.tetris)
          /\ quit' = h.quit
          /\ timer' = h.timer
          /\ merged' = IF h.ret
                       THEN [piece |-> h.locals.piece, map |-> game_map,
                             by |-> "events"]
                       ELSE None
          /\ frame' = [kinds |-> { events[i] : i \in 1..Len(events) },
                       before |-> current_piece,
                       timer_before |-> timer,
                       tmp_x |-> h.locals.tmp_x, tmp_y |-> h.locals.tmp_y,
                       held |-> h.locals.piece,
                       ret |-> h.ret,
                       dropped |-> first_drop(current_piece, game_map, events),
                       each |-> apply_each([piece |-> current_piece,
                                            landed |-> FALSE],
                                           game_map, events)]
  /\ pc' = "quit"
  /\ UNCHANGED << ledger, reported, spawned, vec_vars >>

\* main.rs 411-414: quit was requested; the session ends.
Quit ==
  /\ pc = "quit"
  /\ quit
  /\ LET info == print_game_information(tetris, ledger) IN
       /\ ledger' = info.ledger
       /\ reported' = info
  /\ merged' = None
  /\ pc' = "done"
  /\ UNCHANGED << tetris_vars, timer, quit, spawned, frame, vec_vars >>

\* main.rs 438-440 and 379: the frame is presented, a frame time passes and
\* the next iteration starts with quit false.
Present ==
  /\ pc = "quit"
  /\ ~quit
  /\ timer' = IF timer < BaseTickFrames THEN timer + 1 ELSE timer
  /\ merged' = None
  /\ frame' = None
  /\ pc' = "tick"
  /\ UNCHANGED << tetris_vars, quit, ledger, reported, spawned, vec_vars >>

\* One update_vec call on the vector kept across calls.
UpdateVec ==
  /\ calls < MaxCalls
  /\ \E value \in 0..MaxValue :
       /\ v' = update_vec(v, value).v
       /\ changed' = update_vec(v, value).ret
       /\ submitted' = Append(submitted, value)
  /\ calls' = calls + 1
  /\ UNCHANGED << tetris_vars, timer, quit, pc, ledger, reported, spawned,
                  merged, frame >>

Next ==
  \/ GravityTick
  \/ NoTick
  \/ KeepPiece
  \/ Spawn
  \/ SpawnFail
  \/ HandleEvents
  \/ Quit
  \/ Present

Spec == Init /\ [][Next]_vars

\* The main loop over sessions of one piece more.
NextOverBlocks ==
  \/ GravityTick
  \/ NoTick
  \/ KeepPiece
  \/ SpawnOverBlocks
  \/ SpawnFail
  \/ HandleEvents
  \/ Quit
  \/ Present

SpecOverBlocks == Init /\ [][NextOverBlocks]_vars


NextVec == UpdateVec

SpecVec == Init /\ [][NextVec]_vars

\* No step of the loop is left: the session has ended, or the session's last
\* piece has landed and a further piece would fit.
Stopped ==
  \/ pc = "done"
  \/ /\ pc = "spawn"
     /\ current_piece = None
     /\ spawned >= MaxPieces
     /\ \A kind \in 1..NbKinds :
          test_current_position(new_tetrimino(kind), game_map)

\* The loop moves on to its next position; every step of Next does.
Iterate ==
  /\ ~Stopped
  /\ pc' \in { "tick", "spawn", "events", "quit", "done" }
  /\ pc' # pc

\* The game loop keeps running: main's loop has no blocking call, every
\* iteration ends after the 1/60 s sleep of line 439.
SpecLive == Init /\ [][Next]_vars /\ WF_pc(Iterate)


(* ============================== claims ================================ *)
\* How often x occurs in the sequence s.
Count(s, x) == Cardinality({ i \in 1..Len(s) : s[i] = x })

\* How many of the Min(n, 5) largest submitted values equal x.
TopCount(x) ==
  LET k == IF Len(submitted) < NB_HIGHSOCRES THEN Len(submitted)
           ELSE NB_HIGHSOCRES
      above == Cardinality({ i \in 1..Len(submitted) : submitted[i] > x })
      left == IF k - above > 0 THEN k - above ELSE 0
  IN IF Count(submitted, x) < left THEN Count(submitted, x) ELSE left

IsSorted(s) == \A i \in 1..(Len(s) - 1) : s[i] <= s[i + 1]

\* C1: starting from an empty list, after any sequence of update_vec calls v
\* holds, as a multiset, exactly the Min(n, 5) largest of the n values
\* submitted so far.
C1_HoldsTopFive ==
  \A x \in 0..MaxValue : Count(v, x) = TopCount(x)

\* C2: a list that is empty or sorted ascending before an update_vec call is
\* sorted ascending after it.
C2_StaysSorted ==
  [][IsSorted(v) => IsSorted(v')]_vars

\* The state right after a handle_events call.
AfterEvents == pc = "quit" /\ frame # None

\* C3: at every call of make_permanent the piece is at a valid position and
\* the position one row lower, same x and rotation state, fails
\* test_position.
C3_MergedOnlyWhenBlocked ==
  merged # None =>
    /\ test_current_position(merged.piece, merged.map)
    /\ ~test_position(merged.piece, merged.map,
                      merged.piece.x, merged.piece.y + 1)

\* C4: a hard drop moves the piece to the lowest row reachable in its column
\* and rotation state, and the piece is made permanent in that frame at
\* exactly that position and rotation state.
C4_HardDropLandsWhereDropped ==
  (AfterEvents /\ frame.dropped # None) =>
    /\ merged # None
    /\ merged.piece = frame.dropped

\* C5: the piece and the landing decision after handle_events equal the
\* result of applying the events in arrival order, each as its own Piece
\* operation.
C5_EventsAppliedOneAtATime ==
  AfterEvents =>
    /\ frame.held = frame.each.piece
    /\ frame.ret = frame.each.landed


\* C6 as stated: a soft-drop input after which the piece is still falling
\* leaves the gravity timer unchanged.
C6_SoftDropKeepsTimer ==
  (AfterEvents /\ "Down" \in frame.kinds /\ ~frame.ret) =>
    timer = frame.timer_before

\* C6 amended: every soft-drop input resets the gravity timer, whether or not
\* the piece lands; a frame without soft drop and without landing leaves the
\* timer unchanged.
C6_SoftDropResetsTimer ==
  AfterEvents =>
    timer = IF "Down" \in frame.kinds \/ frame.ret THEN 0
            ELSE frame.timer_before

C6_Witness ==
  /\ AfterEvents
  /\ "Down" \in frame.kinds
  /\ ~frame.ret
  /\ current_piece.y > frame.before.y
  /\ frame.timer_before > 0
  /\ timer = 0

\* C7: a frame whose events are only move-left, move-right and rotate never
\* makes the piece permanent, and when the combined horizontal move is
\* rejected the piece's x and y are unchanged.
C7_HorizontalFrameNeverLands ==
  (AfterEvents /\ frame.kinds \subseteq {"Left", "Right", "Up"}) =>
    /\ ~frame.ret
    /\ merged = None
    /\ current_piece # None
    /\ current_piece.y = frame.before.y
    /\ ~test_position(frame.held, game_map, frame.tmp_x, frame.tmp_y) =>
         /\ current_piece.x = frame.before.x
         /\ current_piece.y = frame.before.y

C7_Witness ==
  /\ AfterEvents
  /\ frame.kinds # {}
  /\ frame.kinds \subseteq {"Left", "Right", "Up"}
  /\ frame.tmp_x # frame.before.x
  /\ ~test_position(frame.held, game_map, frame.tmp_x, frame.tmp_y)
  /\ current_piece # None
  /\ current_piece.x = frame.before.x

\* C8: when a freshly created piece fails test_current_position the session
\* ends in that iteration: the piece is not installed, no event is handled,
\* grid, score, nb_lines and current_level keep their values and are the
\* values reported, and no step follows the end of the session.
C8_FailedSpawnEndsSession ==
  [][ /\ pc # "done"
      /\ (pc = "spawn" /\ pc' = "done") =>
           /\ current_piece' = None
           /\ UNCHANGED << game_map, score, nb_lines, current_level >>
           /\ frame' = None
           /\ reported' # None
           /\ reported'.score = score
           /\ reported'.nb_lines = nb_lines
           /\ reported'.current_level = current_level ]_vars

C8_Witness ==
  /\ pc = "done"
  /\ ~quit
  /\ spawned > 0
  /\ game_map # EmptyMap
  /\ current_piece = None
  /\ reported # None
  /\ reported.score = score

\* C9: score, nb_lines and current_level never decrease.
C9_CountersNeverDecrease ==
  [][ /\ score' >= score
      /\ nb_lines' >= nb_lines
      /\ current_level' >= current_level ]_vars

C9_Witness ==
  /\ merged # None
  /\ score > 0
  /\ nb_lines > 0

\* C10: grid, score, nb_lines and current_level change only in a step that
\* makes a piece permanent; a gravity tick or an input frame in which no
\* piece lands leaves them unchanged.
C10_OnlyLandingMutates ==
  [][ (\/ game_map' # game_map
       \/ score' # score
       \/ nb_lines' # nb_lines
       \/ current_level' # current_level) =>
        /\ current_piece # None
        /\ current_piece' = None
        /\ merged' # None ]_vars

C10_Witness ==
  /\ AfterEvents
  /\ ~frame.ret
  /\ current_piece # None
  /\ current_piece.y > frame.before.y
  /\ game_map = EmptyMap

Steps(piece, grid, pos) ==
  { q \in { <<pos[1] - 1, pos[2]>>, <<pos[1] + 1, pos[2]>>,
            <<pos[1], pos[2] + 1>> } :
      test_position(piece, grid, q[1], q[2]) }

\* The positions connected to those of S by single-cell moves.
RECURSIVE Connected(_, _, _)
Connected(piece, grid, S) ==
  LET more == S \cup UNION { Steps(piece, grid, pos) : pos \in S } IN
  IF more = S THEN S ELSE Connected(piece, grid, more)

\* The grid the handle_events call of this iteration ran against.
FrameMap == IF merged # None THEN merged.map ELSE game_map

\* C12: after an input frame the piece's position is connected to its
\* position before the frame by single-cell moves left, right or down, in
\* the rotation state of the end of the frame, through positions that all
\* pass test_position.
C12_NoJumpOverBlocks ==
  AfterEvents =>
    /\ test_position(frame.held, FrameMap, frame.before.x, frame.before.y)
    /\ << frame.held.x, frame.held.y >> \in
         Connected(frame.held, FrameMap,
                   { << frame.before.x, frame.before.y >> })

\* C13: a gravity tick with an active piece attempts exactly the move to
\* (x, y + 1): on success y grows by one, x and the rotation state are kept
\* and the piece stays active; on failure the position is unchanged and the
\* piece is made permanent in that step; the timer is reset in both cases
\* and also when there is no active piece.
C13_GravityTickMovesOneRow ==
  [][ (pc = "tick" /\ is_time_over(tetris, timer)) =>
        /\ timer' = 0
        /\ current_piece = None =>
             /\ current_piece' = None
             /\ merged' = None
             /\ game_map' = game_map
        /\ (/\ current_piece # None
            /\ test_position(current_piece, game_map,
                             current_piece.x, current_piece.y + 1)) =>
             /\ current_piece' = [current_piece EXCEPT !.y = @ + 1]
             /\ merged' = None
             /\ game_map' = game_map
        /\ (/\ current_piece # None
            /\ ~test_position(current_piece, game_map,
                              current_piece.x, current_piece.y + 1)) =>
             /\ current_piece' = None
             /\ merged' # None
             /\ merged'.piece = current_piece
             /\ game_map' =
                  clear_completed_rows(merge(game_map, current_piece)) ]_vars

C13_Witness ==
  /\ pc = "spawn"
  /\ timer = 0
  /\ merged # None
  /\ merged.by = "tick"
  /\ merged.piece.y > 0
  /\ current_piece = None

\* C14 as stated: current_piece is Some when the events are handled, and it
\* is None only from a merge until the spawn attempt that follows it or once
\* the session has ended on a failed spawn.
C14_NoneOnlyAfterMerge ==
  /\ pc = "events" => current_piece # None
  /\ current_piece = None =>
       \/ spawned > 0 /\ pc \in {"tick", "spawn", "quit"}
       \/ pc = "done" /\ ~quit

\* C14 amended: current_piece is also None from construction until the first
\* spawn attempt, and it stays None when the session ends by quit in the
\* frame that merged the piece.
C14_NoneOnlyBeforeSpawn ==
  /\ pc = "events" => current_piece # None
  /\ (merged # None /\ merged.by = "tick") => pc = "spawn"
  /\ current_piece = None =>
       \/ spawned = 0 /\ pc \in {"tick", "spawn"} /\ game_map = EmptyMap
       \/ spawned > 0 /\ pc = "spawn"
       \/ spawned > 0 /\ pc = "quit" /\ frame.ret
       \/ spawned > 0 /\ pc = "tick" /\ frame = None
       \/ pc = "done" /\ ~quit
       \/ pc = "done" /\ quit /\ frame.ret

C14_Witness ==
  /\ current_piece = None
  /\ spawned > 0
  /\ pc = "tick"
  /\ game_map # EmptyMap

\* C15: while the game loop keeps running every piece installed as
\* current_piece is eventually made permanent or the session ends, whatever
\* the inputs; during its lifetime the piece's y never decreases.
C15_EveryPieceLands ==
  /\ (current_piece # None) ~> (current_piece = None \/ pc = "done")
  /\ [][ (current_piece # None /\ current_piece' # None) =>
           current_piece'.y >= current_piece.y ]_vars

C15_Witness ==
  /\ merged # None
  /\ merged.by = "events"
  /\ merged.piece.y > 0
  /\ ~quit
  /\ current_piece = None

\* The entries of s that differ from the entry of t at the same index.
Touched(s, t) == { i \in 1..Len(s) : s[i] # t[i] }

\* C16: update_vec returns true iff it changed the list, and a change touches
\* exactly one entry: below 5 entries the value is added and the length grows
\* by one, never beyond 5; with 5 entries exactly one entry, one the value
\* strictly exceeds, is overwritten by the value; it returns false, leaving
\* the list identical, iff the list has 5 entries and the value is less than
\* or equal to every entry.
C16_ChangesOneEntryIffTrue ==
  [][ calls' = calls + 1 =>
        LET value == submitted'[Len(submitted')]
        IN /\ changed' <=> (v' # v)
           /\ Len(v) < NB_HIGHSOCRES =>
                /\ changed'
                /\ Len(v') = Len(v) + 1
                /\ Len(v') <= NB_HIGHSOCRES
                /\ \A x \in 0..MaxValue :
                     Count(v', x) = Count(v, x) + (IF x = value THEN 1 ELSE 0)
           /\ (Len(v) = NB_HIGHSOCRES /\ changed') =>
                /\ Len(v') = NB_HIGHSOCRES
                /\ Cardinality(Touched(v, v')) = 1
                /\ \A i \in Touched(v, v') : v'[i] = value /\ value > v[i]
           /\ ~changed' <=>
                (Len(v) = NB_HIGHSOCRES /\ \A i \in 1..Len(v) : value <= v[i])
    ]_vars

\* A full list in which the last call overwrote an entry.
C16_Witness ==
  /\ calls > NB_HIGHSOCRES
  /\ changed
  /\ Len(v) = NB_HIGHSOCRES
  /\ submitted[Len(submitted)] \in { v[i] : i \in 1..Len(v) }
  /\ \E i \in 1..Len(v) : v[i] < submitted[Len(submitted)]

\* C17 as stated: the ledger is read once and written once per session, after
\* the game loop has ended: a session that has ended has run
\* print_game_information and saved the ledger.
C17_LedgerWrittenOncePerSession ==
  /\ reported # None <=> pc = "done"
  /\ pc = "done" => reported.saved

\* C17, amended: print_game_information runs exactly once per session, in the
\* step that ends the game loop, and loads the ledger once; before it the
\* stored ledger is untouched; with no prior record it writes a fresh ledger
\* holding only the session's score and line count; with a prior record it
\* writes the two updated lists only when update_vec changed one of them and
\* writes nothing otherwise.
C17_LedgerWrittenAtMostOnce ==
  [][ /\ pc # "done"
      /\ reported = None
      /\ pc' # "done" => (ledger' = ledger /\ reported' = None)
      /\ pc' = "done" =>
           /\ reported' # None
           /\ reported'.loaded = ledger
           /\ ledger = None =>
                /\ reported'.saved
                /\ ledger' = [highscores |-> << score >>,
                              lines_sent |-> << nb_lines >>]
           /\ ledger # None =>
                LET hs == update_vec(ledger.highscores, score)
                    ls == update_vec(ledger.lines_sent, nb_lines)
                IN /\ reported'.saved <=> (hs.ret \/ ls.ret)
                   /\ reported'.saved =>
                        ledger' = [highscores |-> hs.v, lines_sent |-> ls.v]
                   /\ ~reported'.saved => ledger' = ledger
    ]_vars

\* A session that ended over a prior record and wrote updated lists.
C17_Witness ==
  /\ pc = "done"
  /\ reported # None
  /\ reported.loaded # None
  /\ reported.saved
  /\ ledger # reported.loaded

====
